---- MODULE Spec2Model ----
(***************************************************************************)
(* A model of cachito's ContentManifest (cachito/web/content_manifest.py): *)
(* the builder of the image content manifest of a request.                 *)
(*                                                                         *)
(* Strings are sequences of one-character strings, except that the scheme  *)
(* of a purl ("pkg:golang", "pkg:github", ...) is one element, always the  *)
(* first.  A Python dict is a sequence of [key, value] records in          *)
(* insertion order.                                                        *)
(***************************************************************************)
EXTENDS Integers, Sequences, FiniteSets, TLC

(***************************************************************************)
(* Bounds of the model.                                                    *)
(***************************************************************************)
MaxPkgs == 2
MaxEdges == 2
PermPkgs == 3
PermEdges == 2
ConcPkgs == 1
ConcEdges == 1

(***************************************************************************)
(* Strings.                                                                *)
(***************************************************************************)
Range(s) == {s[i] : i \in DOMAIN s}

\* Below, (CHOOSE y_ \in {F(x) : x \in {v}} : TRUE) is F(v) with v evaluated once,
\* before F: the order of the statements of the code.

\* str.startswith
StartsWith(s, p) == Len(p) <= Len(s) /\ SubSeq(s, 1, Len(p)) = p

\* the code point order of the characters used (schemes compare as the strings they stand for)
Ord(c) ==
    CASE c = "#" -> 1
      [] c = "." -> 2
      [] c = "/" -> 3
      [] c = "1" -> 4
      [] c = "@" -> 5
      [] c = "a" -> 6
      [] c = "b" -> 7
      [] c = "d" -> 8
      [] c = "i" -> 9
      [] c = "m" -> 10
      [] c = "n" -> 11
      [] c = "p" -> 12
      [] c = "q" -> 13
      [] c = "r" -> 14
      [] c = "s" -> 15
      [] c = "t" -> 16
      [] c = "y" -> 17
      [] c = "pkg:github" -> 20
      [] c = "pkg:golang" -> 21
      [] c = "pkg:npm" -> 22
      [] c = "pkg:pypi" -> 23
      [] OTHER -> 0

\* s < t in Python's string order
RECURSIVE StrLess(_, _)
StrLess(s, t) ==
    IF t = <<>> THEN FALSE
    ELSE IF s = <<>> THEN TRUE
    ELSE IF s[1] = t[1] THEN StrLess(Tail(s), Tail(t))
    ELSE Ord(s[1]) < Ord(t[1])

\* str.split("/")
RECURSIVE Split(_)
Split(s) ==
    IF \A i \in DOMAIN s : s[i] # "/" THEN <<s>>
    ELSE LET k == CHOOSE i \in DOMAIN s : s[i] = "/" /\ \A j \in 1..(i - 1) : s[j] # "/"
         IN  (CHOOSE y_ \in {<<SubSeq(s, 1, k - 1)>> \o Split(rest) : rest \in {SubSeq(s, k + 1, Len(s))}} : TRUE)

\* "/".join
RECURSIVE Join(_)
Join(comps) ==
    IF comps = <<>> THEN <<>>
    ELSE IF Len(comps) = 1 THEN comps[1]
    ELSE comps[1] \o <<"/">> \o Join(Tail(comps))

\* the loop of os.path.normpath over the components of a relative path
RECURSIVE NormComps(_, _)
NormComps(comps, new_comps) ==
    IF comps = <<>> THEN new_comps
    ELSE LET comp == Head(comps)
             n == Len(new_comps)
         IN  (CHOOSE y_ \in {NormComps(Tail(comps), nc) : nc \in {IF comp = <<>> \/ comp = <<".">> THEN new_comps
                  ELSE IF \/ comp # <<".", ".">>
                          \/ n = 0
                          \/ (n > 0 /\ new_comps[n] = <<".", ".">>)
                       THEN Append(new_comps, comp)
                       ELSE SubSeq(new_comps, 1, n - 1)}} : TRUE)

\* os.path.normpath of a path that does not begin with "/"
normpath(path) ==
    LET joined == Join(NormComps(Split(path), <<>>))
    IN  IF joined = <<>> THEN <<".">> ELSE joined

\* _add_subpath without its test for a fragment
add_subpath_always_fragment(purl, subpath) == purl \o <<"#">> \o normpath(subpath)

\* _add_subpath
add_subpath(purl, subpath) ==
    IF "#" \in Range(purl)
    THEN purl \o <<"/">> \o normpath(subpath)
    ELSE purl \o <<"#">> \o normpath(subpath)

(***************************************************************************)
(* The class attributes of ContentManifest.                                *)
(***************************************************************************)
version == 1
json_schema_url == "content_manifest.json"
unknown_layer_index == -1

\* None
NoneVal == <<"None">>

(***************************************************************************)
(* The packages and dependencies a request is made of.  purl is what       *)
(* Package.to_top_level_purl / Package.to_purl returns for the record.     *)
(***************************************************************************)
Pkg(id, name, type, purl) == [id |-> id, name |-> name, type |-> type, purl |-> purl]

Dep(name, ver, type, dev, purl) ==
    [name |-> name, version |-> ver, type |-> type, dev |-> dev, purl |-> purl]

PackageUniverse ==
    { Pkg(1, <<"a">>, "gomod", <<"pkg:golang", "/", "a", "@", "1">>),
      Pkg(2, <<"a">>, "gomod", <<"pkg:github", "/", "a", "@", "1", "#", "t">>),
      Pkg(3, <<"a", "/", "p">>, "go-package", <<"pkg:golang", "/", "a", "/", "p", "@", "1">>),
      Pkg(4, <<"n">>, "npm", <<"pkg:github", "/", "r", "@", "1", "#", "n">>),
      Pkg(5, <<"i">>, "pip", <<"pkg:github", "/", "r", "@", "1", "#", "i">>),
      Pkg(6, <<"y">>, "yarn", <<"pkg:github", "/", "r", "@", "1", "#", "y">>),
      Pkg(7, <<"m">>, "git-submodule", <<"pkg:github", "/", "m", "@", "1">>),
      Pkg(8, <<"b">>, "cargo", <<"pkg:github", "/", "r", "@", "1", "#", "b">>) }

DependencyUniverse ==
    { Dep(<<"d">>, <<"1">>, "gomod", FALSE, <<"pkg:golang", "/", "d", "@", "1">>),
      Dep(<<"s">>, <<".", "/", "s">>, "gomod", FALSE, <<"pkg:golang", "/", "s">>),
      Dep(<<"t">>, <<".", "/", "s", "/", ".", ".", "/", "t">>, "gomod", FALSE,
          <<"pkg:golang", "/", "t">>),
      Dep(<<"a", "/", "s">>, <<".", "/", "s">>, "go-package", FALSE,
          <<"pkg:golang", "/", "a", "/", "s">>),
      Dep(<<"a", "/", "q">>, <<"1">>, "go-package", FALSE,
          <<"pkg:golang", "/", "a", "/", "q", "@", "1">>),
      Dep(<<"a", "b">>, <<"1">>, "go-package", FALSE,
          <<"pkg:golang", "/", "a", "b", "@", "1">>),
      Dep(<<"d">>, <<"1">>, "npm", TRUE, <<"pkg:npm", "/", "d", "@", "1">>),
      Dep(<<"p">>, <<"1">>, "npm", FALSE, <<"pkg:npm", "/", "p", "@", "1">>),
      Dep(<<"q">>, <<"1">>, "pip", FALSE, <<"pkg:pypi", "/", "q", "@", "1">>),
      Dep(<<"d">>, <<"1">>, "yarn", TRUE, <<"pkg:npm", "/", "d", "@", "1">>),
      Dep(<<"b">>, <<"1">>, "cargo", FALSE, <<"pkg:github", "/", "b", "@", "1">>) }

\* the rows of request.request_dependencies: a package of the request and one dependency of it
Edge(package, dependency) == [package |-> package, dependency |-> dependency]

(***************************************************************************)
(* Python dicts, in insertion order.                                       *)
(***************************************************************************)
Keys(d) == {d[i].key : i \in DOMAIN d}

RECURSIVE Values(_)
Values(d) == IF d = <<>> THEN <<>> ELSE <<Head(d).value>> \o Values(Tail(d))

\* d[k], for a key of d
Get(d, k) == d[CHOOSE i \in DOMAIN d : d[i].key = k].value

\* d[k] = v
Put(d, k, v) ==
    IF k \in Keys(d)
    THEN [i \in DOMAIN d |-> IF d[i].key = k THEN [key |-> k, value |-> v] ELSE d[i]]
    ELSE Append(d, [key |-> k, value |-> v])

\* dict.setdefault
SetDefault(d, k, v) == IF k \in Keys(d) THEN d ELSE Append(d, [key |-> k, value |-> v])

(***************************************************************************)
(* ContentManifest.__init__: the fields of a new instance.                 *)
(***************************************************************************)
NewContentManifest ==
    [ gopkg_data |-> <<>>,
      gomod_data |-> <<>>,
      npm_data |-> <<>>,
      pip_data |-> <<>>,
      yarn_data |-> <<>>,
      gitsubmodule_data |-> <<>>,
      gopkg_to_parent_gomod |-> <<>> ]

\* getattr(self, f"_{pkg_type}_data") for the standard package types
StdData(self, pkg_type) ==
    CASE pkg_type = "npm" -> self.npm_data
      [] pkg_type = "pip" -> self.pip_data
      [] pkg_type = "yarn" -> self.yarn_data

\* an assignment through the dict getattr returned
WithStdData(self, pkg_type, data) ==
    CASE pkg_type = "npm" -> [self EXCEPT !.npm_data = data]
      [] pkg_type = "pip" -> [self EXCEPT !.pip_data = data]
      [] pkg_type = "yarn" -> [self EXCEPT !.yarn_data = data]

(***************************************************************************)
(* cachito.workers.pkg_managers.gomod: the helpers the manifest calls.     *)
(***************************************************************************)
\* the package is the parent itself or lies under "<parent>/"
contains_package(parent_name, package_name) ==
    /\ StartsWith(package_name, parent_name)
    /\ Len(package_name) > Len(parent_name) => package_name[Len(parent_name) + 1] = "/"

\* the longest module name that contains the package, or None
match_parent_module(package_name, module_names) ==
    LET cands == {m \in module_names : contains_package(m, package_name)}
    IN  IF cands = {} THEN NoneVal
        ELSE CHOOSE m \in cands : \A o \in cands : Len(o) <= Len(m)

\* str.lstrip("/")
RECURSIVE LStripSlash(_)
LStripSlash(s) == IF s # <<>> /\ s[1] = "/" THEN LStripSlash(Tail(s)) ELSE s

\* the path of the subpackage below its parent; ValueError if it is not below it
path_to_subpackage(parent_name, subpackage_name) ==
    IF contains_package(parent_name, subpackage_name)
    THEN [err |-> "none",
          path |-> LStripSlash(SubSeq(subpackage_name, Len(parent_name) + 1,
                                      Len(subpackage_name)))]
    ELSE [err |-> "ValueError", path |-> <<>>]

(***************************************************************************)
(* A call in progress: the instance as the call has left it so far, and    *)
(* the exception that ended it, if one did.                                *)
(***************************************************************************)
Run(self, err) == [self |-> self, err |-> err]

\* ContentManifest._get_parent_go_module: the instance (its cache filled in) and the result
get_parent_go_module_uncached(self, go_pkg_name) ==
    LET module_name ==
            IF go_pkg_name \in Keys(self.gomod_data) THEN go_pkg_name
            ELSE match_parent_module(go_pkg_name, Keys(self.gomod_data))
    IN  [self |-> [self EXCEPT !.gopkg_to_parent_gomod = Put(@, go_pkg_name, module_name)],
         module_name |-> module_name]

get_parent_go_module(self, go_pkg_name) ==
    IF go_pkg_name \in Keys(self.gopkg_to_parent_gomod)
    THEN [self |-> self, module_name |-> Get(self.gopkg_to_parent_gomod, go_pkg_name)]
    ELSE get_parent_go_module_uncached(self, go_pkg_name)

\* ContentManifest.process_gomod
process_gomod(self, package, dependency) ==
    IF dependency.type # "gomod" THEN Run(self, "none")
    ELSE IF package.name \notin Keys(self.gomod_data) THEN Run(self, "KeyError")
    ELSE LET entry == Get(self.gomod_data, package.name)
             dep_purl == IF dependency.version[1] = "."
                         THEN add_subpath(entry.purl, dependency.version)
                         ELSE dependency.purl
             icm_source == [purl |-> dep_purl]
         IN  Run([self EXCEPT !.gomod_data =
                      Put(@, package.name,
                          [entry EXCEPT !.dependencies = Append(@, icm_source)])],
                 "none")

\* ContentManifest.process_go_package
process_go_package(self, package, dependency) ==
    IF dependency.type # "go-package" THEN Run(self, "none")
    ELSE
    LET found == get_parent_go_module(self, package.name)
        module_name == found.module_name
        s1 == found.self
    IN  IF module_name # NoneVal /\ module_name \notin Keys(s1.gomod_data)
        THEN Run(s1, "KeyError")
        ELSE
        LET module_purl == IF module_name # NoneVal
                           THEN Get(s1.gomod_data, module_name).purl ELSE NoneVal
            relative == module_purl # NoneVal /\ dependency.version[1] = "."
            vcs == /\ module_purl # NoneVal
                   /\ module_purl[1] # "pkg:golang"
                   /\ StartsWith(dependency.name, module_name)
            sub == path_to_subpackage(module_name, dependency.name)
            dep_purl == IF relative THEN add_subpath(module_purl, dependency.version)
                        ELSE IF vcs THEN add_subpath(module_purl, sub.path)
                        ELSE dependency.purl
        IN  IF ~relative /\ vcs /\ sub.err # "none" THEN Run(s1, sub.err)
            ELSE IF package.id \notin Keys(s1.gopkg_data) THEN Run(s1, "KeyError")
            ELSE LET entry == Get(s1.gopkg_data, package.id)
                 IN  Run([s1 EXCEPT !.gopkg_data =
                              Put(@, package.id,
                                  [entry EXCEPT !.dependencies =
                                       Append(@, [purl |-> dep_purl])])],
                         "none")

\* _process_standard_package without its test of dependency.dev
process_standard_package_ignoring_dev(self, pkg_type, package, dependency) ==
    LET pkg_type_data == StdData(self, pkg_type)
    IN  IF package.id \notin Keys(pkg_type_data) THEN Run(self, "KeyError")
        ELSE LET entry == Get(pkg_type_data, package.id)
                 icm_dependency == [purl |-> dependency.purl]
                 e2 == [entry EXCEPT !.sources = Append(@, icm_dependency),
                                     !.dependencies = Append(@, icm_dependency)]
             IN  Run(WithStdData(self, pkg_type, Put(pkg_type_data, package.id, e2)), "none")

\* ContentManifest._process_standard_package
process_standard_package(self, pkg_type, package, dependency) ==
    LET pkg_type_data == StdData(self, pkg_type)
    IN  IF package.id \notin Keys(pkg_type_data) THEN Run(self, "KeyError")
        ELSE LET entry == Get(pkg_type_data, package.id)
                 icm_dependency == [purl |-> dependency.purl]
                 e1 == [entry EXCEPT !.sources = Append(@, icm_dependency)]
                 e2 == IF ~dependency.dev
                       THEN [e1 EXCEPT !.dependencies = Append(@, icm_dependency)]
                       ELSE e1
             IN  Run(WithStdData(self, pkg_type, Put(pkg_type_data, package.id, e2)), "none")

\* ContentManifest.process_npm_package
process_npm_package(self, package, dependency) ==
    IF dependency.type = "npm"
    THEN process_standard_package(self, "npm", package, dependency)
    ELSE Run(self, "none")

\* ContentManifest.process_pip_package
process_pip_package(self, package, dependency) ==
    IF dependency.type = "pip"
    THEN process_standard_package(self, "pip", package, dependency)
    ELSE Run(self, "none")

\* ContentManifest.process_yarn_package
process_yarn_package(self, package, dependency) ==
    IF dependency.type = "yarn"
    THEN process_standard_package(self, "yarn", package, dependency)
    ELSE Run(self, "none")

(***************************************************************************)
(* ContentManifest.to_json, phase by phase.                                *)
(***************************************************************************)
EmptyEntry(purl) == [purl |-> purl, dependencies |-> <<>>, sources |-> <<>>]

\* to_json: the six assignments that open the call
reset(self) ==
    [self EXCEPT !.gopkg_data = <<>>, !.gomod_data = <<>>, !.npm_data = <<>>,
                 !.pip_data = <<>>, !.yarn_data = <<>>, !.gitsubmodule_data = <<>>]

\* to_json: the body of the loop over request.request_packages
seed(self, package) ==
    IF package.type = "go-package"
    THEN [self EXCEPT !.gopkg_data =
              SetDefault(@, package.id,
                         [name |-> package.name, purl |-> package.purl,
                          dependencies |-> <<>>, sources |-> <<>>])]
    ELSE IF package.type = "gomod"
    THEN [self EXCEPT !.gomod_data =
              SetDefault(@, package.name, [purl |-> package.purl, dependencies |-> <<>>])]
    ELSE IF package.type \in {"npm", "pip", "yarn"}
    THEN WithStdData(self, package.type,
                     SetDefault(StdData(self, package.type), package.id,
                                EmptyEntry(package.purl)))
    ELSE IF package.type = "git-submodule"
    THEN [self EXCEPT !.gitsubmodule_data =
              SetDefault(@, package.id, EmptyEntry(package.purl))]
    ELSE self

\* to_json: the loop over request.request_packages
RECURSIVE seed_all(_, _)
seed_all(self, packages) ==
    IF packages = <<>> THEN self
    ELSE (CHOOSE y_ \in {seed_all(s, Tail(packages)) : s \in {seed(self, Head(packages))}} : TRUE)

\* the dispatch by getattr(self, "process_<type>"), which has no method for other types
dispatch_by_getattr(self, req_dep) ==
    LET t == req_dep.package.type
    IN  IF t = "go-package" THEN process_go_package(self, req_dep.package, req_dep.dependency)
        ELSE IF t = "gomod" THEN process_gomod(self, req_dep.package, req_dep.dependency)
        ELSE IF t = "npm" THEN process_npm_package(self, req_dep.package, req_dep.dependency)
        ELSE IF t = "pip" THEN process_pip_package(self, req_dep.package, req_dep.dependency)
        ELSE IF t = "yarn" THEN process_yarn_package(self, req_dep.package, req_dep.dependency)
        ELSE Run(self, "AttributeError")

\* to_json: the body of the loop over request.request_dependencies
dispatch(self, req_dep) ==
    LET t == req_dep.package.type
    IN  IF t = "go-package" THEN process_go_package(self, req_dep.package, req_dep.dependency)
        ELSE IF t = "gomod" THEN process_gomod(self, req_dep.package, req_dep.dependency)
        ELSE IF t = "npm" THEN process_npm_package(self, req_dep.package, req_dep.dependency)
        ELSE IF t = "pip" THEN process_pip_package(self, req_dep.package, req_dep.dependency)
        ELSE IF t = "yarn" THEN process_yarn_package(self, req_dep.package, req_dep.dependency)
        ELSE Run(self, "none")

\* to_json: the loop over request.request_dependencies, left by the first exception
RECURSIVE populate(_, _)
populate(self, req_deps) ==
    IF req_deps = <<>> THEN Run(self, "none")
    ELSE (CHOOSE y_ \in {IF r.err # "none" THEN r ELSE populate(r.self, Tail(req_deps)) : r \in {dispatch(self, Head(req_deps))}} : TRUE)

\* the body of the loop, storing the module's list under "dependencies"
set_sources_at_into_dependencies(self, i) ==
    LET package_id == self.gopkg_data[i].key
        pkg_data == self.gopkg_data[i].value
    IN  IF "name" \notin DOMAIN pkg_data THEN Run(self, "KeyError")
        ELSE
        LET popped == [purl |-> pkg_data.purl, dependencies |-> pkg_data.dependencies,
                       sources |-> pkg_data.sources]
            s1 == [self EXCEPT !.gopkg_data = Put(@, package_id, popped)]
            found == get_parent_go_module(s1, pkg_data.name)
            s2 == found.self
        IN  IF found.module_name = NoneVal THEN Run(s2, "none")
            ELSE IF found.module_name \notin Keys(s2.gomod_data) THEN Run(s2, "KeyError")
            ELSE LET module == Get(s2.gomod_data, found.module_name)
                 IN  Run([s2 EXCEPT !.gopkg_data =
                              Put(@, package_id,
                                  [popped EXCEPT !.dependencies = module.dependencies])],
                         "none")

\* ContentManifest.set_go_package_sources: the body of the loop, for the i-th entry
set_sources_at(self, i) ==
    LET package_id == self.gopkg_data[i].key
        pkg_data == self.gopkg_data[i].value
    IN  IF "name" \notin DOMAIN pkg_data THEN Run(self, "KeyError")
        ELSE
        LET popped == [purl |-> pkg_data.purl, dependencies |-> pkg_data.dependencies,
                       sources |-> pkg_data.sources]
            s1 == [self EXCEPT !.gopkg_data = Put(@, package_id, popped)]
            found == get_parent_go_module(s1, pkg_data.name)
            s2 == found.self
        IN  IF found.module_name = NoneVal THEN Run(s2, "none")
            ELSE IF found.module_name \notin Keys(s2.gomod_data) THEN Run(s2, "KeyError")
            ELSE LET module == Get(s2.gomod_data, found.module_name)
                 IN  Run([s2 EXCEPT !.gopkg_data =
                              Put(@, package_id,
                                  [popped EXCEPT !.sources = module.dependencies])],
                         "none")

\* ContentManifest.set_go_package_sources: the loop from the i-th entry on
RECURSIVE set_sources_from(_, _)
set_sources_from(self, i) ==
    IF i > Len(self.gopkg_data) THEN Run(self, "none")
    ELSE (CHOOSE y_ \in {IF r.err # "none" THEN r ELSE set_sources_from(r.self, i + 1) : r \in {set_sources_at(self, i)}} : TRUE)

\* to_json without its call of set_go_package_sources
set_go_package_sources_skipped(self) == Run(self, "none")

set_go_package_sources(self) == set_sources_from(self, 1)

\* to_json: the list handed to generate_icm
top_level_packages(self) ==
    Values(self.gopkg_data) \o Values(self.npm_data) \o Values(self.pip_data)
        \o Values(self.yarn_data) \o Values(self.gitsubmodule_data)

(***************************************************************************)
(* cachito.web.utils.deep_sort_icm: every list of records that carry a     *)
(* purl is sorted by it; the sort is stable.                               *)
(***************************************************************************)
\* insert into a list sorted by purl, after the records that are not greater
RECURSIVE InsertByPurl(_, _)
InsertByPurl(sorted, x) ==
    IF sorted = <<>> THEN <<x>>
    ELSE IF StrLess(x.purl, Head(sorted).purl) THEN <<x>> \o sorted
    ELSE <<Head(sorted)>> \o InsertByPurl(Tail(sorted), x)

RECURSIVE SortByPurlInto(_, _)
SortByPurlInto(sorted, rest) ==
    IF rest = <<>> THEN sorted
    ELSE (CHOOSE y_ \in {SortByPurlInto(s, Tail(rest)) : s \in {InsertByPurl(sorted, Head(rest))}} : TRUE)

SortByPurl(list) == SortByPurlInto(<<>>, list)

\* the entries of image_contents, each with its own lists sorted
RECURSIVE SortWithin(_)
SortWithin(entries) ==
    IF entries = <<>> THEN <<>>
    ELSE <<[Head(entries) EXCEPT !.dependencies = SortByPurl(@),
                                 !.sources = SortByPurl(@)]>> \o SortWithin(Tail(entries))

deep_sort_icm(icm) ==
    [metadata |-> icm.metadata,
     image_contents |-> (CHOOSE y_ \in {SortByPurl(l) : l \in {SortWithin(icm.image_contents)}} : TRUE)]

\* ContentManifest.generate_icm
generate_icm(image_contents) ==
    deep_sort_icm(
        [metadata |-> [icm_version |-> version, icm_spec |-> json_schema_url,
                       image_layer_index |-> unknown_layer_index],
         image_contents |-> image_contents])

\* what a call returns: a document, or the exception that left it
Returned(doc) == [status |-> "ok", doc |-> doc]

Raised(err) == [status |-> err, doc |-> generate_icm(<<>>)]

NotReturned == [status |-> "none", doc |-> generate_icm(<<>>)]

\* to_json from its first line to its return: the instance as the call leaves it, and the result
to_json(self, packages, req_deps) ==
    LET emit(sourced) ==
            [self |-> sourced.self,
             ret |-> IF sourced.err = "none"
                     THEN (CHOOSE y_ \in {Returned(generate_icm(l)) : l \in {top_level_packages(sourced.self)}} : TRUE)
                     ELSE Raised(sourced.err)]
        sources(populated) ==
            (CHOOSE y_ \in {emit(x_) : x_ \in {IF populated.err = "none"
                 THEN set_go_package_sources(populated.self) ELSE populated}} : TRUE)
        deps(seeded) == (CHOOSE y_ \in {sources(x_) : x_ \in {populate(seeded, req_deps)}} : TRUE)
    IN  (CHOOSE y_ \in {deps(x_) : x_ \in {seed_all(reset(self), packages)}} : TRUE)

(***************************************************************************)
(* The state: the request's rows, the ContentManifest instances, and the   *)
(* to_json calls (the instance each is made on, where it stands, what it   *)
(* returned).                                                              *)
(***************************************************************************)
VARIABLES request_packages, request_dependencies, cm, self_of, pc, ret

vars == <<request_packages, request_dependencies, cm, self_of, pc, ret>>

Instances == {1, 2}

Calls == {1, 2}

\* the sequences without repetition of at most n elements of S
SeqsNoRep(S, n) ==
    UNION {{q \in [1..k -> S] : \A i, j \in 1..k : i # j => q[i] # q[j]} : k \in 0..n}

\* the rows request_dependencies may hold for these packages
EdgesOf(packages) ==
    {e \in {Edge(p, d) : p \in Range(packages), d \in DependencyUniverse} :
        e.dependency.type = e.package.type}

\* the requests of at most np packages and ne dependency rows
Requests(np, ne) ==
    UNION {{[packages |-> ps, dependencies |-> ds] : ds \in SeqsNoRep(EdgesOf(ps), ne)} :
           ps \in SeqsNoRep(PackageUniverse, np)}

Remove(q, i) == SubSeq(q, 1, i - 1) \o SubSeq(q, i + 1, Len(q))

Swap(q, i, j) == [q EXCEPT ![i] = q[j], ![j] = q[i]]

RECURSIVE Filter(_, _)
Filter(q, keep) ==
    IF q = <<>> THEN <<>>
    ELSE IF Head(q) \in keep THEN <<Head(q)>> \o Filter(Tail(q), keep)
    ELSE Filter(Tail(q), keep)

InitCalls ==
    /\ cm = [i \in Instances |-> NewContentManifest]
    /\ pc = [t \in Calls |-> "idle"]
    /\ ret = [t \in Calls |-> NotReturned]

\* the maps as class attributes, one state for every instance
SelfShared(t) == 1

\* the instance call t is made on: the self of to_json

Self(t) == self_of[t]

\* one whole to_json call t on the request as it is then
Build(t, packages, req_deps) ==
    \E r \in {to_json(cm[Self(t)], packages, req_deps)} :
        /\ cm' = [cm EXCEPT ![Self(t)] = r.self]
        /\ ret' = [ret EXCEPT ![t] = r.ret]
        /\ pc' = [pc EXCEPT ![t] = "done"]
        /\ UNCHANGED self_of

(***************************************************************************)
(* Spec: one instance, called again and again; between two calls the       *)
(* request may have gained or lost a package or gained a dependency row.   *)
(***************************************************************************)
Init ==
    /\ request_packages = <<>>
    /\ request_dependencies = <<>>
    /\ self_of = [t \in Calls |-> t]
    /\ InitCalls

ToJson ==
    /\ Build(1, request_packages, request_dependencies)
    /\ UNCHANGED <<request_packages, request_dependencies>>

ToJsonAfterAddPackage ==
    \E p \in PackageUniverse \ Range(request_packages) :
        /\ Len(request_packages) < MaxPkgs
        /\ request_packages' = Append(request_packages, p)
        /\ UNCHANGED request_dependencies
        /\ Build(1, request_packages', request_dependencies')

ToJsonAfterRemovePackage ==
    \E i \in DOMAIN request_packages :
        /\ request_packages' = Remove(request_packages, i)
        /\ request_dependencies' =
               Filter(request_dependencies,
                      {e \in Range(request_dependencies) : e.package # request_packages[i]})
        /\ Build(1, request_packages', request_dependencies')

ToJsonAfterAddDependency ==
    \E e \in EdgesOf(request_packages) \ Range(request_dependencies) :
        /\ Len(request_dependencies) < MaxEdges
        /\ request_dependencies' = Append(request_dependencies, e)
        /\ UNCHANGED request_packages
        /\ Build(1, request_packages', request_dependencies')

Next ==
    \/ ToJson
    \/ ToJsonAfterAddPackage
    \/ ToJsonAfterRemovePackage
    \/ ToJsonAfterAddDependency

Spec == Init /\ [][Next]_vars

(***************************************************************************)
(* SpecPerm: the same rows in two orders, each built on an instance of its *)
(* own.                                                                    *)
(***************************************************************************)
InitPerm ==
    /\ \E r \in Requests(PermPkgs, PermEdges) :
           /\ request_packages = r.packages
           /\ request_dependencies = r.dependencies
    /\ self_of = [t \in Calls |-> t]
    /\ InitCalls

FirstBuild ==
    /\ pc[1] = "idle"
    /\ Build(1, request_packages, request_dependencies)
    /\ UNCHANGED <<request_packages, request_dependencies>>

PermutePackages ==
    /\ pc[1] = "done" /\ pc[2] = "idle"
    /\ \E i, j \in DOMAIN request_packages :
           i < j /\ request_packages' = Swap(request_packages, i, j)
    /\ UNCHANGED <<request_dependencies, cm, self_of, pc, ret>>

PermuteDependencies ==
    /\ pc[1] = "done" /\ pc[2] = "idle"
    /\ \E i, j \in DOMAIN request_dependencies :
           i < j /\ request_dependencies' = Swap(request_dependencies, i, j)
    /\ UNCHANGED <<request_packages, cm, self_of, pc, ret>>

SecondBuild ==
    /\ pc[1] = "done" /\ pc[2] = "idle"
    /\ Build(2, request_packages, request_dependencies)
    /\ UNCHANGED <<request_packages, request_dependencies>>

NextPerm == FirstBuild \/ PermutePackages \/ PermuteDependencies \/ SecondBuild

SpecPerm == InitPerm /\ [][NextPerm]_vars

(***************************************************************************)
(* SpecConc: two to_json calls interleaved phase by phase, on two          *)
(* instances or on one.                                                    *)
(***************************************************************************)
InitConc ==
    /\ \E r \in Requests(ConcPkgs, ConcEdges) :
           /\ request_packages = r.packages
           /\ request_dependencies = r.dependencies
    /\ self_of \in {f \in [Calls -> Instances] : f[1] = 1}
    /\ InitCalls

\* call t moves on: its instance becomes self, and it stands at `to`
Step(t, self, to) ==
    /\ cm' = [cm EXCEPT ![Self(t)] = self]
    /\ pc' = [pc EXCEPT ![t] = to]
    /\ UNCHANGED <<request_packages, request_dependencies, self_of, ret>>

\* call t ends with an exception
Raise(t, self, err) ==
    /\ cm' = [cm EXCEPT ![Self(t)] = self]
    /\ pc' = [pc EXCEPT ![t] = "done"]
    /\ ret' = [ret EXCEPT ![t] = Raised(err)]
    /\ UNCHANGED <<request_packages, request_dependencies, self_of>>

Reset(t) ==
    /\ pc[t] = "idle"
    /\ Step(t, reset(cm[Self(t)]), "seed")

Seed(t) ==
    /\ pc[t] = "seed"
    /\ \E s \in {seed_all(cm[Self(t)], request_packages)} : Step(t, s, "populate")

Populate(t) ==
    /\ pc[t] = "populate"
    /\ \E r \in {populate(cm[Self(t)], request_dependencies)} :
           IF r.err = "none" THEN Step(t, r.self, "sources") ELSE Raise(t, r.self, r.err)

SetSources(t) ==
    /\ pc[t] = "sources"
    /\ \E r \in {set_go_package_sources(cm[Self(t)])} :
           IF r.err = "none" THEN Step(t, r.self, "emit") ELSE Raise(t, r.self, r.err)

Emit(t) ==
    /\ pc[t] = "emit"
    /\ \E l \in {top_level_packages(cm[Self(t)])} :
           ret' = [ret EXCEPT ![t] = Returned(generate_icm(l))]
    /\ pc' = [pc EXCEPT ![t] = "done"]
    /\ UNCHANGED <<request_packages, request_dependencies, cm, self_of>>

NextConc ==
    \E t \in Calls : Reset(t) \/ Seed(t) \/ Populate(t) \/ SetSources(t) \/ Emit(t)

SpecConc == InitConc /\ [][NextConc]_vars

(***************************************************************************)
(* What the claims speak of.                                               *)
(***************************************************************************)
StandardTypes == {"npm", "pip", "yarn"}

EmittedTypes == {"go-package", "git-submodule"} \cup StandardTypes

KnownTypes == EmittedTypes \cup {"gomod"}

\* call 1 has returned a document
Built == pc[1] = "done" /\ ret[1].status = "ok"

\* the rows of request_dependencies of package p, in order
RowsOf(p) == Filter(request_dependencies, {e \in Range(request_dependencies) : e.package = p})

\* the purl records of the dependencies of these rows
RECURSIVE DepPurls(_)
DepPurls(rows) ==
    IF rows = <<>> THEN <<>>
    ELSE <<[purl |-> Head(rows).dependency.purl]>> \o DepPurls(Tail(rows))

\* the map of instance 1 that holds the entry of a package of an emitted type
DataOf(p) ==
    CASE p.type = "go-package" -> cm[1].gopkg_data
      [] p.type = "git-submodule" -> cm[1].gitsubmodule_data
      [] OTHER -> StdData(cm[1], p.type)

\* the entry call 1 emitted for package p
EntryOf(p) == Get(DataOf(p), p.id)

\* the list call 1 handed to generate_icm as image_contents
ImageContents == top_level_packages(cm[1])

\* the positions in image_contents of the entries with this purl
EntriesAt(purl) == {i \in DOMAIN ImageContents : ImageContents[i].purl = purl}

\* the Go modules seeded for the request: the names of its gomod packages
SeededModules == {p.name : p \in {q \in Range(request_packages) : q.type = "gomod"}}

\* the owner of a go-package name among the seeded modules: the name itself, else the
\* longest module name it lies under, else None
OwnerOf(name) ==
    IF name \in SeededModules THEN name
    ELSE IF \E m \in SeededModules : contains_package(m, name)
    THEN CHOOSE m \in SeededModules :
             /\ contains_package(m, name)
             /\ \A o \in SeededModules : contains_package(o, name) => Len(o) <= Len(m)
    ELSE NoneVal

\* C1: after to_json, the sources of every go-package entry is its owner module's
\* dependencies, where the owner is resolved among the seeded modules; with no owner
\* the sources is empty and the build succeeds
C1_GoPackageSources ==
    pc[1] = "done" =>
        \A p \in {q \in Range(request_packages) : q.type = "go-package"} :
            IF OwnerOf(p.name) = NoneVal
            THEN Built /\ EntryOf(p).sources = <<>>
            ELSE Built => EntryOf(p).sources =
                              Get(cm[1].gomod_data, OwnerOf(p.name)).dependencies

\* C2: every to_json call on one instance returns what a newly constructed
\* ContentManifest returns for the request as it is at that call
C2_NoStateAcrossBuilds ==
    pc[1] = "done" =>
        ret[1] = to_json(NewContentManifest, request_packages, request_dependencies).ret

\* C3 as stated: a package without dependency rows is emitted with empty dependencies
\* and empty sources
C3_NoEdgesEmptyEntry ==
    Built =>
        \A p \in {q \in Range(request_packages) : q.type \in EmittedTypes} :
            RowsOf(p) = <<>> =>
                EntryOf(p).dependencies = <<>> /\ EntryOf(p).sources = <<>>

\* C3 amended: a package without dependency rows is emitted with empty dependencies,
\* and with empty sources unless it is a go-package; the sources of a go-package is
\* empty or the dependencies of a seeded Go module
C3_NoEdgesEmptyDependencies ==
    Built =>
        \A p \in {q \in Range(request_packages) : q.type \in EmittedTypes} :
            RowsOf(p) = <<>> =>
                /\ EntryOf(p).dependencies = <<>>
                /\ p.type # "go-package" => EntryOf(p).sources = <<>>
                /\ p.type = "go-package" =>
                       \/ EntryOf(p).sources = <<>>
                       \/ \E m \in Keys(cm[1].gomod_data) :
                              EntryOf(p).sources = Get(cm[1].gomod_data, m).dependencies

\* a go-package without rows of its own was emitted with sources
C3_Witness ==
    /\ Built
    /\ \E p \in Range(request_packages) :
           /\ p.type = "go-package"
           /\ RowsOf(p) = <<>>
           /\ EntryOf(p).dependencies = <<>>
           /\ EntryOf(p).sources # <<>>

C5_Deterministic == pc[1] = "done" /\ pc[2] = "done" => ret[1] = ret[2]

\* the packages of the request whose type to_json knows, and their rows
KnownPackages == Filter(request_packages, {p \in Range(request_packages) : p.type \in KnownTypes})

KnownRows ==
    Filter(request_dependencies,
           {e \in Range(request_dependencies) : e.package.type \in KnownTypes})

\* C6: packages of an unknown type and their rows change nothing: the call leaves the
\* instance and returns the result it does for the request without them, and the
\* document has no entry for them
C6_UnknownTypeSkipped ==
    pc[1] = "done" =>
        /\ to_json(cm[1], KnownPackages, KnownRows) = [self |-> cm[1], ret |-> ret[1]]
        /\ Built =>
               \A p \in {q \in Range(request_packages) : q.type \notin KnownTypes} :
                   EntriesAt(p.purl) = {}

\* a document with an entry was returned for a request with a package of unknown type
\* that has a row
C6_Witness ==
    /\ Built
    /\ ret[1].doc.image_contents # <<>>
    /\ \E e \in Range(request_dependencies) : e.package.type \notin KnownTypes

\* the purl of the Go module entry named m: that of the first gomod package of the name
ModulePurl(m) ==
    request_packages[CHOOSE i \in DOMAIN request_packages :
                         /\ request_packages[i].type = "gomod"
                         /\ request_packages[i].name = m
                         /\ \A j \in 1..(i - 1) :
                                ~(request_packages[j].type = "gomod"
                                  /\ request_packages[j].name = m)].purl

\* the relative versions of the dependencies, normalized
Normalized(ver) ==
    CASE ver = <<".", "/", "s">> -> <<"s">>
      [] ver = <<".", "/", "s", "/", ".", ".", "/", "t">> -> <<"t">>

\* a purl with a path put below it
Below(purl, path) ==
    IF \E i \in DOMAIN purl : purl[i] = "#"
    THEN purl \o <<"/">> \o path
    ELSE purl \o <<"#">> \o path

\* what process_gomod is to append for the rows of module m
RECURSIVE GomodPurls(_, _)
GomodPurls(m, rows) ==
    IF rows = <<>> THEN <<>>
    ELSE LET d == Head(rows).dependency
         IN  <<[purl |-> IF d.version[1] = "."
                         THEN Below(ModulePurl(m), Normalized(d.version))
                         ELSE d.purl]>> \o GomodPurls(m, Tail(rows))

RowsOfModule(m) ==
    Filter(request_dependencies,
           {e \in Range(request_dependencies) :
                e.package.type = "gomod" /\ e.package.name = m})

EmittedPackages == {p \in Range(request_packages) : p.type \in EmittedTypes}

\* C8: image_contents has one entry for each package of an emitted type and none for
\* a gomod package, and every entry has the keys purl, dependencies and sources only
C8_ImageContents ==
    Built =>
        /\ Len(ImageContents) = Cardinality({p.id : p \in EmittedPackages})
        /\ Len(ret[1].doc.image_contents) = Len(ImageContents)
        /\ \A p \in EmittedPackages : Cardinality(EntriesAt(p.purl)) = 1
        /\ \A p \in Range(request_packages) : p.type = "gomod" => EntriesAt(p.purl) = {}
        /\ \A i \in DOMAIN ImageContents :
               DOMAIN ImageContents[i] = {"purl", "dependencies", "sources"}

\* a document was returned for a go-package and the Go module that owns it
C8_Witness ==
    /\ Built
    /\ Len(ImageContents) = 1
    /\ \E p, q \in Range(request_packages) :
           p.type = "go-package" /\ q.type = "gomod" /\ Get(cm[1].gomod_data, q.name).dependencies # <<>>

\* the path of a dependency below the module that contains it
PathBelow(module_name, name) ==
    IF name = module_name THEN <<".">>
    ELSE SubSeq(name, Len(module_name) + 2, Len(name))

\* what process_go_package is to append for the rows of go-package p
RECURSIVE GoPackagePurls(_, _)
GoPackagePurls(p, rows) ==
    IF rows = <<>> THEN <<>>
    ELSE LET d == Head(rows).dependency
             owner == OwnerOf(p.name)
         IN  <<[purl |-> IF owner # NoneVal /\ d.version[1] = "."
                         THEN Below(ModulePurl(owner), Normalized(d.version))
                         ELSE IF /\ owner # NoneVal
                                 /\ ModulePurl(owner)[1] # "pkg:golang"
                                 /\ contains_package(owner, d.name)
                         THEN Below(ModulePurl(owner), PathBelow(owner, d.name))
                         ELSE d.purl]>> \o GoPackagePurls(p, Tail(rows))

\* C9: every build completes, and the dependencies of a go-package entry holds one
\* purl for each of its rows: the owner module's purl with the relative version below
\* it; else, if the owner's purl is not a pkg:golang purl and the dependency's name is
\* the module's or lies under "<module>/", the owner's purl with that path below it;
\* else the dependency's own purl
C9_GoPackageDependency ==
    pc[1] = "done" =>
        /\ Built
        /\ \A p \in {q \in Range(request_packages) : q.type = "go-package"} :
               EntryOf(p).dependencies = GoPackagePurls(p, RowsOf(p))

\* the result of a call made alone on a new instance
Alone == to_json(NewContentManifest, request_packages, request_dependencies).ret

\* C10 as stated: under any interleaving of two calls, on two instances or on one, each
\* call returns the document it returns when run alone
C10_CallsIsolated == \A t \in Calls : pc[t] = "done" => ret[t] = Alone

\* C10 amended: two interleaved calls on two instances each return the document they
\* return when run alone, and neither instance holds what the other call wrote
C10_SeparateInstancesIsolated ==
    self_of[1] # self_of[2] =>
        /\ \A t \in Calls : pc[t] = "done" => ret[t] = Alone
        /\ \A t \in Calls :
               pc[t] = "idle" => cm[self_of[t]] = NewContentManifest

\* two calls on two instances have both returned a document with an entry, one
\* having started while the other was at work
C10_Witness ==
    /\ self_of[1] # self_of[2]
    /\ \A t \in Calls :
           pc[t] = "done" /\ ret[t].status = "ok" /\ ret[t].doc.image_contents # <<>>

====
